---- MODULE Spec2Model ----
(***************************************************************************)
(* Translation proxy (src/server.js, the NLLB revision, and                *)
(* src/unnamed/part_000, the OPUS-MT revision): the model-loading state    *)
(* machine and the /proxy handler (fetch, classify, translate text nodes   *)
(* one by one, rewrite links, respond).                                    *)
(*                                                                         *)
(* Strings are sequences of one-character strings, so that split,          *)
(* startsWith, includes, trim, encodeURIComponent and query-string parsing *)
(* are computed as the code computes them.  Bodies of non-HTML responses   *)
(* are sequences of bytes.  An HTML document is the tree cheerio.load      *)
(* yields: the html element's attributes and, for head and for body, the   *)
(* descendants in document (pre-)order, each with its depth below head or  *)
(* body.                                                                   *)
(***************************************************************************)
EXTENDS Integers, Sequences, FiniteSets, TLC

VARIABLES variant, site, mainPc, loadPc, translator, loadStarts, req,
          clock, statusRes

vars == <<variant, site, mainPc, loadPc, translator, loadStarts, req,
          clock, statusRes>>

(***************************************************************************)
(* Bounds of the explored inputs.                                          *)
(***************************************************************************)
MaxNodes == 2
MaxBody == 2

Slots == {1}

(***************************************************************************)
(* String literals of the source.                                          *)
(***************************************************************************)
S_http == <<"h","t","t","p">>
S_und == <<"u","n","d">>
S_en == <<"e","n">>
S_fr == <<"f","r">>
S_fra_Latn == <<"f","r","a","_","L","a","t","n">>
S_text_html == <<"t","e","x","t","/","h","t","m","l">>
S_proxy_url == <<"/","p","r","o","x","y","?","u","r","l","=">>
S_amp_lang == <<"&","l","a","n","g","=">>
S_POST == <<"P","O","S","T">>
S_null == <<"n","u","l","l">>

DefaultLang(v) == IF v = "nllb" THEN S_fra_Latn ELSE S_fr

(***************************************************************************)
(* String primitives of JavaScript used by the handler.                    *)
(***************************************************************************)
StartsWith(s, p) == Len(s) >= Len(p) /\ SubSeq(s, 1, Len(p)) = p

Includes(s, p) ==
    \E i \in 1..(Len(s) + 1) :
        i + Len(p) - 1 <= Len(s) /\ SubSeq(s, i, i + Len(p) - 1) = p

Whitespace == {" ", "\n", "\t"}

TrimIsEmpty(s) == \A i \in 1..Len(s) : s[i] \in Whitespace

IndexOfChar(s, c) ==
    IF \E i \in 1..Len(s) : s[i] = c
    THEN CHOOSE i \in 1..Len(s) : s[i] = c /\ \A j \in 1..(i - 1) : s[j] # c
    ELSE 0

SplitFirst(s, c) ==
    IF IndexOfChar(s, c) = 0 THEN s ELSE SubSeq(s, 1, IndexOfChar(s, c) - 1)

Truthy(s) == s # <<>>

(***************************************************************************)
(* Attributes: a list of <<name, value>> pairs, as in the markup.          *)
(***************************************************************************)
HasAttr(attribs, name) == \E i \in 1..Len(attribs) : attribs[i][1] = name

AttrVal(attribs, name) ==
    IF HasAttr(attribs, name)
    THEN attribs[CHOOSE i \in 1..Len(attribs) :
                    attribs[i][1] = name
                    /\ \A j \in 1..(i - 1) : attribs[j][1] # name][2]
    ELSE <<>>

AttrTruthy(attribs, name) == HasAttr(attribs, name) /\ Truthy(AttrVal(attribs, name))

SetAttr(attribs, name, value) ==
    IF HasAttr(attribs, name)
    THEN [i \in 1..Len(attribs) |->
            IF attribs[i][1] = name
               /\ \A j \in 1..(i - 1) : attribs[j][1] # name
            THEN <<name, value>> ELSE attribs[i]]
    ELSE Append(attribs, <<name, value>>)

(***************************************************************************)
(* encodeURIComponent, and the query-string parsing the proxy applies to   *)
(* the request target (express: req.query).                                *)
(***************************************************************************)
Letters ==
    {"a","b","c","d","e","f","g","h","i","j","k","l","m","n","o","p","q",
     "r","s","t","u","v","w","x","y","z","A","B","C","D","E","F","G","H",
     "I","J","K","L","M","N","O","P","Q","R","S","T","U","V","W","X","Y","Z"}

Digits == {"0","1","2","3","4","5","6","7","8","9"}

HexDigits == Digits \cup {"A","B","C","D","E","F","a","b","c","d","e","f"}

Unreserved == Letters \cup Digits \cup {"-","_",".","!","~","*","'","(",")"}

PercentCode(c) ==
    CASE c = " " -> <<"%","2","0">>
      [] c = "#" -> <<"%","2","3">>
      [] c = "%" -> <<"%","2","5">>
      [] c = "&" -> <<"%","2","6">>
      [] c = "+" -> <<"%","2","B">>
      [] c = "/" -> <<"%","2","F">>
      [] c = ":" -> <<"%","3","A">>
      [] c = "=" -> <<"%","3","D">>
      [] c = "?" -> <<"%","3","F">>

RECURSIVE encodeURIComponent(_)
encodeURIComponent(s) ==
    IF s = <<>> THEN <<>>
    ELSE (IF s[1] \in Unreserved THEN <<s[1]>> ELSE PercentCode(s[1]))
         \o encodeURIComponent(Tail(s))

PercentChar(h1, h2) ==
    CASE <<h1, h2>> = <<"2","0">> -> " "
      [] <<h1, h2>> = <<"2","3">> -> "#"
      [] <<h1, h2>> = <<"2","5">> -> "%"
      [] <<h1, h2>> = <<"2","6">> -> "&"
      [] <<h1, h2>> = <<"2","B">> -> "+"
      [] <<h1, h2>> = <<"2","F">> -> "/"
      [] <<h1, h2>> = <<"3","A">> -> ":"
      [] <<h1, h2>> = <<"3","D">> -> "="
      [] <<h1, h2>> = <<"3","F">> -> "?"

PlusToSpace(s) == [i \in 1..Len(s) |-> IF s[i] = "+" THEN " " ELSE s[i]]

PercentWellFormed(s) ==
    \A i \in 1..Len(s) :
        s[i] = "%" =>
            i + 2 <= Len(s) /\ s[i + 1] \in HexDigits /\ s[i + 2] \in HexDigits

RECURSIVE PercentDecode(_)
PercentDecode(s) ==
    IF s = <<>> THEN <<>>
    ELSE IF s[1] = "%"
         THEN <<PercentChar(s[2], s[3])>> \o PercentDecode(SubSeq(s, 4, Len(s)))
         ELSE <<s[1]>> \o PercentDecode(Tail(s))

\* qs decoder: '+' is a space; a malformed escape leaves the text undecoded.
QueryDecode(s) ==
    IF PercentWellFormed(PlusToSpace(s))
    THEN PercentDecode(PlusToSpace(s))
    ELSE PlusToSpace(s)

RECURSIVE SplitAll(_, _)
SplitAll(s, c) ==
    IF IndexOfChar(s, c) = 0 THEN <<s>>
    ELSE <<SubSeq(s, 1, IndexOfChar(s, c) - 1)>>
         \o SplitAll(SubSeq(s, IndexOfChar(s, c) + 1, Len(s)), c)

AfterFirst(s, c) ==
    IF IndexOfChar(s, c) = 0 THEN <<>>
    ELSE SubSeq(s, IndexOfChar(s, c) + 1, Len(s))

QueryPair(part) ==
    <<QueryDecode(SplitFirst(part, "=")), QueryDecode(AfterFirst(part, "="))>>

\* The pairs of the query string of a request target (the fragment is never
\* sent); empty parts are skipped.
ParseQuery(target) ==
    LET qs == AfterFirst(SplitFirst(target, "#"), "?")
        parts == SelectSeq(SplitAll(qs, "&"), LAMBDA p : p # <<>>)
    IN  [i \in 1..Len(parts) |-> QueryPair(parts[i])]

\* req.query as the handler reads it: url and lang of a parsed query.
QueryOf(pairs) ==
    [hasUrl |-> HasAttr(pairs, <<"u","r","l">>),
     url |-> AttrVal(pairs, <<"u","r","l">>),
     hasLang |-> HasAttr(pairs, <<"l","a","n","g">>),
     lang |-> AttrVal(pairs, <<"l","a","n","g">>)]

\* const targetLang = req.query.lang || <default>
TargetLang(v, q) == IF q.hasLang /\ Truthy(q.lang) THEN q.lang ELSE DefaultLang(v)

(***************************************************************************)
(* responseType 'text': the body bytes are decoded as UTF-8 (an invalid    *)
(* byte becomes U+FFFD); res.send of a string encodes it as UTF-8.         *)
(* Lead bytes below 0xE0 are covered.                                      *)
(***************************************************************************)
RECURSIVE Utf8Decode(_)
Utf8Decode(b) ==
    IF b = <<>> THEN <<>>
    ELSE IF b[1] < 128 THEN <<b[1]>> \o Utf8Decode(Tail(b))
    ELSE IF b[1] \in 194..223 /\ Len(b) >= 2 /\ b[2] \in 128..191
         THEN <<(b[1] - 192) * 64 + (b[2] - 128)>>
              \o Utf8Decode(SubSeq(b, 3, Len(b)))
    ELSE <<65533>> \o Utf8Decode(Tail(b))

RECURSIVE Utf8Encode(_)
Utf8Encode(cps) ==
    IF cps = <<>> THEN <<>>
    ELSE (IF cps[1] < 128 THEN <<cps[1]>>
          ELSE IF cps[1] < 2048
               THEN <<192 + (cps[1] \div 64), 128 + (cps[1] % 64)>>
          ELSE <<224 + (cps[1] \div 4096), 128 + ((cps[1] \div 64) % 64),
                 128 + (cps[1] % 64)>>)
         \o Utf8Encode(Tail(cps))

(***************************************************************************)
(* The parsed document.  A node is a text node (data) or a tag (name,      *)
(* attribs); depth 1 is a child of head, respectively of body.             *)
(***************************************************************************)
TextNode(d, data) ==
    [type |-> "text", name |-> "", data |-> data, attribs |-> <<>>, depth |-> d]

TagNode(d, name, attribs) ==
    [type |-> "tag", name |-> name, data |-> <<>>, attribs |-> attribs, depth |-> d]

\* The children of the element at position i of a pre-order node list.
Children(nodes, i) ==
    {j \in (i + 1)..Len(nodes) :
        /\ nodes[j].depth = nodes[i].depth + 1
        /\ \A k \in (i + 1)..j : nodes[k].depth > nodes[i].depth}

RECURSIVE Ascending(_)
Ascending(S) ==
    IF S = {} THEN <<>>
    ELSE LET m == CHOOSE x \in S : \A y \in S : x <= y
         IN  <<m>> \o Ascending(S \ {m})

\* this.type === 'text' && this.data.trim()
Translatable(n) == n.type = "text" /\ ~TrimIsEmpty(n.data)

\* $('body').find('*').contents(): for every element below body, in document
\* order, its child nodes; the text nodes with non-blank content are kept.
RECURSIVE ContentsFrom(_, _)
ContentsFrom(body, i) ==
    IF i > Len(body) THEN <<>>
    ELSE (IF body[i].type = "tag"
          THEN Ascending({j \in Children(body, i) : Translatable(body[j])})
          ELSE <<>>)
         \o ContentsFrom(body, i + 1)

CollectTextNodes(body) == ContentsFrom(body, 1)

\* $('html').attr('lang') || 'und'
PageLang(doc) ==
    IF AttrTruthy(doc.html, "lang") THEN AttrVal(doc.html, "lang") ELSE S_und

\* The "rough check" that decides whether the walk runs.
NeedsTranslation(v, pageLang, targetLang) ==
    IF v = "nllb" THEN pageLang # SplitFirst(targetLang, "_")
    ELSE pageLang # targetLang

\* The engine is opaque; its output for a text is that text, marked.
EngineOutput(text) == <<"#">> \o text

(***************************************************************************)
(* Link rewriting.                                                         *)
(***************************************************************************)
\* url-parse: origin of an http(s) URL with a host, 'null' otherwise.
HostEnd(rest) ==
    IF \E i \in 1..Len(rest) : rest[i] \in {"/", "?", "#"}
    THEN (CHOOSE i \in 1..Len(rest) :
              rest[i] \in {"/", "?", "#"}
              /\ \A j \in 1..(i - 1) : rest[j] \notin {"/", "?", "#"}) - 1
    ELSE Len(rest)

Origin(url) ==
    LET scheme == IF StartsWith(url, S_http \o <<"s",":","/","/">>)
                  THEN S_http \o <<"s",":","/","/">>
                  ELSE IF StartsWith(url, S_http \o <<":","/","/">>)
                       THEN S_http \o <<":","/","/">>
                       ELSE <<>>
        rest == SubSeq(url, Len(scheme) + 1, Len(url))
    IN  IF scheme = <<>> \/ HostEnd(rest) = 0 THEN S_null
        ELSE scheme \o SubSeq(rest, 1, HostEnd(rest))

\* 'a[href], link[href], script[src], img[src], form[action]'
Selected(n) ==
    /\ n.type = "tag"
    /\ \/ n.name \in {"a", "link"} /\ HasAttr(n.attribs, "href")
       \/ n.name \in {"script", "img"} /\ HasAttr(n.attribs, "src")
       \/ n.name = "form" /\ HasAttr(n.attribs, "action")

\* $(this).attr('href') ? 'href' : $(this).attr('src') ? 'src' : 'action'
PickAttr(n) ==
    IF AttrTruthy(n.attribs, "href") THEN "href"
    ELSE IF AttrTruthy(n.attribs, "src") THEN "src" ELSE "action"

\* The link after resolution against the origin.
Resolve(link, origin) ==
    IF Truthy(link) /\ ~StartsWith(link, S_http)
    THEN origin \o (IF StartsWith(link, <<"/">>) THEN link ELSE <<"/">> \o link)
    ELSE link

ProxyUrl(link, targetLang) ==
    S_proxy_url \o encodeURIComponent(link) \o S_amp_lang \o targetLang

\* link.startsWith on an undefined link (the picked attribute is absent)
\* throws a TypeError.
RewriteThrows(n) == Selected(n) /\ ~HasAttr(n.attribs, PickAttr(n))

RewriteNode(n, origin, targetLang) ==
    IF ~Selected(n) THEN n
    ELSE LET attr == PickAttr(n)
             link == Resolve(AttrVal(n.attribs, attr), origin)
         IN  IF StartsWith(link, S_http)
             THEN [n EXCEPT !.attribs = SetAttr(@, attr, ProxyUrl(link, targetLang))]
             ELSE n

\* $('form').attr('method', 'POST')
ForcePost(n) ==
    IF n.type = "tag" /\ n.name = "form"
    THEN [n EXCEPT !.attribs = SetAttr(@, "method", S_POST)]
    ELSE n

RewriteNodes(nodes, origin, targetLang) ==
    [i \in 1..Len(nodes) |-> ForcePost(RewriteNode(nodes[i], origin, targetLang))]

RewriteFails(doc) ==
    \/ \E i \in 1..Len(doc.head) : RewriteThrows(doc.head[i])
    \/ \E i \in 1..Len(doc.body) : RewriteThrows(doc.body[i])

RewriteDoc(doc, url, targetLang) ==
    [doc EXCEPT !.head = RewriteNodes(@, Origin(url), targetLang),
                !.body = RewriteNodes(@, Origin(url), targetLang)]

(***************************************************************************)
(* The explored inputs: requests, and what the upstream may answer.        *)
(***************************************************************************)
Methods == {"get", "post"}

UrlValid == S_http \o <<":","/","/","a","/","p">>
UrlInvalid == <<"n","o">>
LinkAbs == S_http \o <<":","/","/","b","/","?","q","=","1","&","r">>
LangOdd == <<"f","&","r">>

Queries ==
    {[hasUrl |-> hu, url |-> u, hasLang |-> hl, lang |-> l] :
        hu \in BOOLEAN, u \in {<<>>, UrlValid, UrlInvalid},
        hl \in BOOLEAN, l \in {<<>>, S_fr, S_fra_Latn, LangOdd}}

\* A query as express yields it: an absent parameter has no value, a present
\* lang is one of the explored codes.
RequestQueries ==
    {q \in Queries : /\ (~q.hasUrl => q.url = <<>>)
                     /\ (q.hasLang <=> q.lang # <<>>)}

S_ctype_html == S_text_html \o <<";"," ","c","h","a","r","s","e","t","=","u","t","f","-","8">>
S_ctype_png == <<"i","m","a","g","e","/","p","n","g">>

ByteAlphabet == {65, 137, 195, 169}

Bodies == UNION {[1..n -> ByteAlphabet] : n \in 0..MaxBody}

HtmlAttribs ==
    {<<>>, << <<"lang", S_en>> >>, << <<"lang", S_fr>> >>, << <<"lang", S_fra_Latn>> >>}

Heads == {<<>>, <<TagNode(1, "title", <<>>), TextNode(2, <<"a">>)>>}

NodeChoices ==
    UNION {{TextNode(d, <<"a">>), TextNode(d, <<"b">>), TextNode(d, <<" ">>),
            TagNode(d, "p", <<>>), TagNode(d, "script", <<>>),
            TagNode(d, "a", << <<"href", LinkAbs>> >>)} : d \in 1..MaxNodes}

\* A pre-order list a parser can yield: depths step down from the parent,
\* only tags have children, and no two text nodes are adjacent siblings.
WellFormedNodes(ns) ==
    /\ Len(ns) > 0 => ns[1].depth = 1
    /\ \A i \in 1..(Len(ns) - 1) :
          /\ ns[i + 1].depth <= ns[i].depth + (IF ns[i].type = "tag" THEN 1 ELSE 0)
          /\ ~(ns[i].type = "text" /\ ns[i + 1].type = "text"
               /\ ns[i].depth = ns[i + 1].depth)

BodyLists ==
    {ns \in UNION {[1..n -> NodeChoices] : n \in 0..MaxNodes} : WellFormedNodes(ns)}

\* <div><p>b</p>c</div>: nested markup with two translatable text nodes.
NestedPage ==
    [html |-> <<>>, head |-> <<>>,
     body |-> <<TagNode(1, "div", <<>>), TagNode(2, "p", <<>>),
                TextNode(3, <<"b">>), TextNode(2, <<"c">>)>>]

\* Attribute values of link-carrying elements: empty, bare relative,
\* root-relative, a relative file name that begins with "http", a mailto
\* link, an absolute URL and an already proxy-relative URL.
LinkRel == <<"x">>
LinkRoot == <<"/","x">>
LinkHttpName == S_http \o <<"s",".","h","t","m","l">>
LinkMailto == <<"m","a","i","l","t","o",":","m">>
LinkProxied == ProxyUrl(S_http \o <<":","/","/","b">>, S_fr)

AttrOpts(name, values) == {<<>>} \cup {<< <<name, v>> >> : v \in values}

\* a, img and form elements with every combination of an absent, empty or
\* set href, src and action, and anchors with the other href values.
LinkElems ==
    {TagNode(1, t, h \o sr \o ac) :
        t \in {"a", "img", "form"},
        h \in AttrOpts("href", {<<>>, LinkRel, LinkAbs}),
        sr \in AttrOpts("src", {<<>>, LinkRel}),
        ac \in AttrOpts("action", {<<>>, LinkRel})}
    \cup {TagNode(1, "a", << <<"href", v>> >>) :
            v \in {LinkRoot, LinkHttpName, LinkMailto, LinkProxied}}
    \cup {TagNode(1, "form", << <<"method", <<"g","e","t">>>>, <<"action", LinkRoot>> >>)}

\* Pages with one such element in the body, empty or with a text child, and
\* pages with a stylesheet link in the head.
LinkPages ==
    {[html |-> <<>>, head |-> <<>>, body |-> <<e>> \o t] :
        e \in LinkElems, t \in {<<>>, <<TextNode(2, <<"b">>)>>}}
    \cup {[html |-> <<>>, head |-> <<TagNode(1, "link", << <<"href", v>> >>)>>,
           body |-> <<>>] : v \in {LinkRel, LinkRoot}}

Docs ==
    {[html |-> h, head |-> hd, body |-> b] :
        h \in HtmlAttribs, hd \in Heads, b \in BodyLists}
    \cup {NestedPage} \cup LinkPages

EmptyDoc == [html |-> <<>>, head |-> <<>>, body |-> <<>>]

ErrorPage ==
    [html |-> << <<"lang", S_en>> >>, head |-> <<>>,
     body |-> <<TagNode(1, "p", <<>>), TextNode(2, <<"a">>)>>]

Upstream(kind, status, hasCtype, ctype, bytes, doc) ==
    [kind |-> kind, status |-> status, hasCtype |-> hasCtype, ctype |-> ctype,
     bytes |-> bytes, doc |-> doc]

NoUpstream == Upstream("none", 0, FALSE, <<>>, <<>>, EmptyDoc)

NetworkError == Upstream("error", 0, FALSE, <<>>, <<>>, EmptyDoc)

\* What the upstream may answer: a 200 with any explored body, with or
\* without a content-type header, or a 404 with its error page or bytes.
UpstreamResponses ==
    {Upstream("response", 200, TRUE, S_ctype_html, <<>>, d) : d \in Docs}
    \cup {Upstream("response", 200, TRUE, S_ctype_png, b, EmptyDoc) : b \in Bodies}
    \cup {Upstream("response", 200, FALSE, <<>>, b, EmptyDoc) : b \in Bodies}
    \cup {Upstream("response", 404, TRUE, S_ctype_html, <<>>, ErrorPage),
          Upstream("response", 404, TRUE, S_ctype_png, <<137, 65>>, EmptyDoc)}

\* A small site, for requests handled side by side.
SmallPage ==
    [html |-> << <<"lang", S_en>> >>, head |-> <<>>,
     body |-> <<TagNode(1, "a", << <<"href", LinkRel>> >>), TextNode(2, <<"a">>),
                TagNode(1, "p", <<>>), TextNode(2, <<"d">>)>>]

SmallResponses ==
    {Upstream("response", 200, TRUE, S_ctype_html, <<>>, NestedPage),
     Upstream("response", 200, TRUE, S_ctype_html, <<>>, SmallPage),
     Upstream("response", 200, TRUE, S_ctype_png, <<65>>, EmptyDoc)}

\* An invalid url never yields a response: axios rejects the request.
OutcomesFor(st, url) ==
    IF url # UrlValid THEN {NetworkError}
    ELSE IF st = "small" THEN SmallResponses \cup {NetworkError}
    ELSE UpstreamResponses \cup {NetworkError}

(***************************************************************************)
(* Responses and the per-request record.  engineAtRecv, fetches, calls,    *)
(* upstream, failure and answers record what happened, for the properties. *)
(***************************************************************************)
Res(status, kind, bytes, doc, msg) ==
    [status |-> status, kind |-> kind, bytes |-> bytes, doc |-> doc, msg |-> msg]

NoRes == Res(0, "none", <<>>, EmptyDoc, "")

NoQuery == [hasUrl |-> FALSE, url |-> <<>>, hasLang |-> FALSE, lang |-> <<>>]

IdleReq ==
    [pc |-> "idle", method |-> "get", query |-> NoQuery, engineAtRecv |-> "NotLoaded",
     fetches |-> 0, upstream |-> NoUpstream, doc |-> EmptyDoc,
     textNodes |-> <<>>, idx |-> 0, calls |-> <<>>, inFlight |-> 0,
     failure |-> "", res |-> NoRes, answers |-> 0]

\* The engine readiness state of the data model.
EngineState ==
    CASE loadPc = "init" -> "NotLoaded"
      [] loadPc = "awaiting" -> "Loading"
      [] loadPc = "loaded" -> "Ready"
      [] loadPc = "failed" -> "LoadFailed"

(***************************************************************************)
(* Process start: the load is kicked off, then the server listens.         *)
(***************************************************************************)
\* let translator; it stays unset while the pipeline promise is awaited.
HandleWhileLoadingPending == TRUE

HandleWhileLoading == FALSE

StartLoad ==
    /\ mainPc = "start"
    /\ loadPc = "init"
    /\ loadPc' = "awaiting"
    /\ loadStarts' = loadStarts + 1
    /\ mainPc' = "loadStarted"
    /\ translator' = HandleWhileLoading
    /\ UNCHANGED <<variant, site, req, clock, statusRes>>

Listen ==
    /\ mainPc = "loadStarted"
    /\ mainPc' = "listening"
    /\ UNCHANGED <<variant, site, loadPc, translator, loadStarts, req, clock, statusRes>>

\* translator = await pipeline(...)
LoadOk ==
    /\ loadPc = "awaiting"
    /\ loadPc' = "loaded"
    /\ translator' = TRUE
    /\ UNCHANGED <<variant, site, mainPc, loadStarts, req, clock, statusRes>>

\* catch (error) { console.error(...) }
AfterLoadErrorRetry == "awaiting"

AfterLoadError == "failed"

LoadFail ==
    /\ loadPc = "awaiting"
    /\ loadPc' = AfterLoadError
    /\ loadStarts' = IF AfterLoadError = "awaiting" THEN loadStarts + 1 ELSE loadStarts
    /\ UNCHANGED <<variant, site, mainPc, translator, req, clock, statusRes>>

(***************************************************************************)
(* The /proxy handler.                                                     *)
(***************************************************************************)
\* The two early returns: 400, 503, or 0 when the request is admitted.
AdmitNoGate(q, tr) == IF ~(q.hasUrl /\ Truthy(q.url)) THEN 400 ELSE 0

AdmitReadyFirst(q, tr) ==
    IF ~tr THEN 503
    ELSE IF ~(q.hasUrl /\ Truthy(q.url)) THEN 400 ELSE 0

Admit(q, tr) ==
    IF ~(q.hasUrl /\ Truthy(q.url)) THEN 400
    ELSE IF ~tr THEN 503 ELSE 0

Answer(rec, res) ==
    [rec EXCEPT !.pc = "done", !.res = res, !.answers = @ + 1, !.inFlight = 0]

\* catch (error) { res.status(500).send('Error proxying: ' + error.message) }
Error500Silent(rec, why) == [rec EXCEPT !.pc = "done", !.failure = why, !.inFlight = 0]

Error500(rec, why) ==
    Answer([rec EXCEPT !.failure = why],
           Res(500, "msg", <<>>, EmptyDoc, "Error proxying"))

\* The target language a handler activation works with: its own local.
HandlerLangShared(v, rq, r) ==
    TargetLang(v, rq[CHOOSE s \in DOMAIN rq : \A t \in DOMAIN rq : s >= t].query)

HandlerLang(v, rq, r) == TargetLang(v, rq[r].query)

\* From the link rewriter to res.send($.html()).
Finish(rec, lang) ==
    IF RewriteFails(rec.doc) THEN Error500(rec, "rewrite")
    ELSE LET out == RewriteDoc(rec.doc, rec.query.url, lang)
         IN  Answer([rec EXCEPT !.doc = out], Res(200, "html", <<>>, out, ""))

\* await translator(node.data, ...) for the node at position k of textNodes.
IssueCall(rec, k) ==
    [rec EXCEPT !.pc = "translate", !.idx = k, !.inFlight = 1,
                !.calls = Append(@, rec.doc.body[rec.textNodes[k]].data)]

\* A slot is one activation of the handler: it receives one request.
Receive(r) ==
    /\ mainPc = "listening"
    /\ req[r].pc = "idle"
    /\ \E m \in Methods, q \in RequestQueries :
          LET rec == [IdleReq EXCEPT !.method = m, !.query = q,
                                     !.engineAtRecv = EngineState]
          IN  req' = [req EXCEPT ![r] =
                   CASE Admit(q, translator) = 400 ->
                           Answer(rec, Res(400, "msg", <<>>, EmptyDoc, "No URL provided"))
                     [] Admit(q, translator) = 503 ->
                           Answer(rec, Res(503, "msg", <<>>, EmptyDoc,
                                           "Translator model not loaded yet"))
                     [] OTHER -> [rec EXCEPT !.pc = "fetch", !.fetches = @ + 1]]
    /\ UNCHANGED <<variant, site, mainPc, loadPc, translator, loadStarts, clock, statusRes>>

\* axios rejects on a network failure and, with the default validateStatus,
\* on a status outside 2xx.
AxiosRejects(up) == up.kind = "error" \/ up.status \notin 200..299

\* response.headers['content-type'].includes('text/html') on a missing header
ClassifyThrows(up) == ~up.hasCtype

IsHtml(up) == Includes(up.ctype, S_text_html)

\* res.send(response.data): the text axios decoded, sent as UTF-8.
PassThrough(up) == Utf8Encode(Utf8Decode(up.bytes))

FetchDone(r) ==
    /\ req[r].pc = "fetch"
    /\ \E up \in OutcomesFor(site, req[r].query.url) :
          LET rec == [req[r] EXCEPT !.upstream = up]
              parsed == [rec EXCEPT !.doc = up.doc]
              lang == HandlerLang(variant, req, r)
              nodes == IF NeedsTranslation(variant, PageLang(up.doc), lang)
                       THEN CollectTextNodes(up.doc.body) ELSE <<>>
          IN  req' = [req EXCEPT ![r] =
                   IF AxiosRejects(up) THEN Error500(rec, "fetch")
                   ELSE IF ClassifyThrows(up) THEN Error500(rec, "classify")
                   ELSE IF ~IsHtml(up)
                        THEN Answer(rec, Res(200, "bytes", PassThrough(up), EmptyDoc, ""))
                   ELSE IF nodes # <<>>
                        THEN IssueCall([parsed EXCEPT !.textNodes = nodes], 1)
                   ELSE Finish(parsed, lang)]
    /\ UNCHANGED <<variant, site, mainPc, loadPc, translator, loadStarts, clock, statusRes>>

\* A translation call that throws: the error reaches the catch.
AfterCallErrorSkip(rec, lang) ==
    IF rec.idx < Len(rec.textNodes)
    THEN IssueCall([rec EXCEPT !.failure = "translate"], rec.idx + 1)
    ELSE Finish([rec EXCEPT !.failure = "translate"], lang)

AfterCallError(rec, lang) == Error500(rec, "translate")

\* The translation call of the current node settles: node.data is replaced
\* and the loop goes on, or the error reaches the catch.
TranslateDone(r, ok) ==
    /\ req[r].pc = "translate"
    /\ LET rec == req[r]
           n == rec.textNodes[rec.idx]
           lang == HandlerLang(variant, req, r)
           mutated == [rec EXCEPT !.inFlight = 0,
                          !.doc.body[n].data = EngineOutput(rec.doc.body[n].data)]
       IN  req' = [req EXCEPT ![r] =
                IF ~ok THEN AfterCallError(rec, lang)
                ELSE IF rec.idx < Len(rec.textNodes)
                     THEN IssueCall(mutated, rec.idx + 1)
                ELSE Finish(mutated, lang)]
    /\ UNCHANGED <<variant, site, mainPc, loadPc, translator, loadStarts, clock, statusRes>>

(***************************************************************************)
(* GET /status.  clock is Date.now() - loadStart, in milliseconds.         *)
(***************************************************************************)
TickMs == 7300
SlackTicks == 2

\* const estimatedLoadTime
EstimatedLoadTime(v) == IF v = "nllb" THEN 300000 ELSE 120000

Max(a, b) == IF a >= b THEN a ELSE b

\* Math.round of x / 1000: the nearest integer, a half rounded up
RoundThousandths(x) == (x + 500) \div 1000

RemainingUnclamped(v, elapsed) ==
    RoundThousandths(EstimatedLoadTime(v) - elapsed)

\* Math.round(Math.max(0, estimatedLoadTime - elapsed) / 1000)
Remaining(v, elapsed) ==
    RoundThousandths(Max(0, EstimatedLoadTime(v) - elapsed))

NoStatus == [polled |-> FALSE, ready |-> FALSE, remaining |-> 0, at |-> 0,
             engine |-> "NotLoaded"]

\* Time passes: by one tick, or up to the estimated load time exactly.
TickSteps ==
    {TickMs} \cup (IF clock < EstimatedLoadTime(variant)
                   THEN {EstimatedLoadTime(variant) - clock} ELSE {})

Tick ==
    /\ \E d \in TickSteps :
          /\ clock + d <= EstimatedLoadTime(variant) + SlackTicks * TickMs
          /\ clock' = clock + d
    /\ UNCHANGED <<variant, site, mainPc, loadPc, translator, loadStarts, req, statusRes>>

\* app.get('/status'): res.json({ ready, remaining })
Status ==
    /\ mainPc = "listening"
    /\ statusRes' = [polled |-> TRUE, ready |-> translator,
                     remaining |-> Remaining(variant, clock), at |-> clock,
                     engine |-> EngineState]
    /\ UNCHANGED <<variant, site, mainPc, loadPc, translator, loadStarts, req, clock>>

(***************************************************************************)
(* Specifications.                                                         *)
(***************************************************************************)
Boot ==
    /\ variant \in {"nllb", "opus"}
    /\ mainPc = "start"
    /\ loadPc = "init"
    /\ translator = FALSE
    /\ loadStarts = 0
    /\ clock = 0
    /\ statusRes = NoStatus

Init ==
    /\ Boot
    /\ site = "full"
    /\ req = [r \in Slots |-> IdleReq]

Next ==
    \/ StartLoad
    \/ Listen
    \/ LoadOk
    \/ LoadFail
    \/ \E r \in DOMAIN req : Receive(r)
    \/ \E r \in DOMAIN req : FetchDone(r)
    \/ \E r \in DOMAIN req, ok \in BOOLEAN : TranslateDone(r, ok)

Spec == Init /\ [][Next]_vars

\* One request against a small site; its fetch and its translation calls
\* all settle.
InitLive ==
    /\ Boot
    /\ site = "small"
    /\ req = [r \in Slots |-> IdleReq]

SpecLive ==
    /\ InitLive
    /\ [][Next]_vars
    /\ \A r \in Slots :
          /\ WF_vars(FetchDone(r))
          /\ WF_vars(\E ok \in BOOLEAN : TranslateDone(r, ok))

\* Two requests handled side by side against a small site.
PairSlots == {1, 2}

InitPair ==
    /\ Boot
    /\ site = "small"
    /\ req = [r \in PairSlots |-> IdleReq]

SpecPair == InitPair /\ [][Next]_vars

\* The load and the status poll while time passes.
NextStatus ==
    \/ StartLoad
    \/ Listen
    \/ LoadOk
    \/ LoadFail
    \/ Tick
    \/ Status

SpecStatus == Init /\ [][NextStatus]_vars

(***************************************************************************)
(* Properties.                                                             *)
(***************************************************************************)
HasUrl(rec) == rec.query.hasUrl /\ Truthy(rec.query.url)

Effective(rec) == TargetLang(variant, rec.query)

HtmlFetched(rec) ==
    /\ rec.upstream.kind = "response"
    /\ rec.upstream.status \in 200..299
    /\ rec.upstream.hasCtype
    /\ Includes(rec.upstream.ctype, S_text_html)

TextData(doc) ==
    <<[i \in 1..Len(doc.head) |-> doc.head[i].data],
      [i \in 1..Len(doc.body) |-> doc.body[i].data]>>

Shape(doc) ==
    <<[i \in 1..Len(doc.head) |-> <<doc.head[i].type, doc.head[i].name, doc.head[i].depth>>],
      [i \in 1..Len(doc.body) |-> <<doc.body[i].type, doc.body[i].name, doc.body[i].depth>>]>>

\* C1: a request that carries a url and arrives while the engine is still
\* loading is answered at once with 503 and the not-ready body; no fetch and
\* no translation call is issued for it, and it stays answered that way,
\* also after the engine has become ready.
C1_NotReadyFailsFast ==
    \A r \in Slots :
        (req[r].pc # "idle" /\ HasUrl(req[r]) /\ req[r].engineAtRecv = "Loading")
        => /\ req[r].pc = "done"
           /\ req[r].res.status = 503
           /\ req[r].res.msg = "Translator model not loaded yet"
           /\ req[r].answers = 1
           /\ req[r].fetches = 0
           /\ req[r].calls = <<>>

C1_Witness ==
    \E r \in Slots :
        /\ HasUrl(req[r]) /\ req[r].engineAtRecv = "Loading"
        /\ req[r].res.status = 503
        /\ EngineState = "Ready"

\* C2: a request without a url parameter is answered 400 in every engine
\* state, for every method and lang; the url check comes before the
\* readiness check and no fetch is issued.
C2_MissingUrlIs400 ==
    \A r \in Slots :
        (req[r].pc # "idle" /\ ~req[r].query.hasUrl)
        => /\ req[r].pc = "done"
           /\ req[r].res.status = 400
           /\ req[r].answers = 1
           /\ req[r].fetches = 0
           /\ req[r].calls = <<>>

C2_Witness ==
    \E r \in Slots :
        /\ ~req[r].query.hasUrl
        /\ req[r].engineAtRecv = "Loading"
        /\ req[r].method = "post"
        /\ req[r].query.hasLang
        /\ req[r].res.status = 400

\* C3: a request whose url is present but not an absolute well-formed URL is
\* answered 400 and no upstream fetch is attempted for it (engine ready).
C3_InvalidUrlIs400 ==
    \A r \in Slots :
        (req[r].pc = "done" /\ req[r].query.url = UrlInvalid
         /\ req[r].engineAtRecv = "Ready")
        => req[r].res.status = 400 /\ req[r].fetches = 0

\* C4: the engine state only moves NotLoaded -> Loading -> Ready or
\* LoadFailed; the load is started exactly once; Ready and LoadFailed are
\* never left; a request with a url received after LoadFailed fails with no
\* fetch and no translation call.
EngineMoves ==
    {<<"NotLoaded", "Loading">>, <<"Loading", "Ready">>, <<"Loading", "LoadFailed">>}

C4_Step ==
    /\ EngineState' # EngineState => <<EngineState, EngineState'>> \in EngineMoves
    /\ loadStarts' = (IF EngineState' = "NotLoaded" THEN 0 ELSE 1)
    /\ translator' = (EngineState' = "Ready")
    /\ \A r \in Slots :
          (req'[r].pc # "idle" /\ HasUrl(req'[r])
           /\ req'[r].engineAtRecv = "LoadFailed")
          => /\ req'[r].pc = "done"
             /\ req'[r].res.status = 503
             /\ req'[r].fetches = 0
             /\ req'[r].calls = <<>>

C4_EngineLifecycle == [][C4_Step]_vars

C4_Witness ==
    \E r \in Slots :
        /\ EngineState = "LoadFailed"
        /\ HasUrl(req[r]) /\ req[r].engineAtRecv = "LoadFailed"
        /\ req[r].pc = "done" /\ req[r].res.status = 503

\* C5: when the upstream content type does not contain text/html, the
\* response body equals the upstream body exactly and no translation call
\* is made.
C5_NonHtmlVerbatim ==
    \A r \in Slots :
        (/\ req[r].pc = "done"
         /\ req[r].upstream.kind = "response"
         /\ req[r].upstream.status \in 200..299
         /\ req[r].upstream.hasCtype
         /\ ~Includes(req[r].upstream.ctype, S_text_html))
        => /\ req[r].res.kind = "bytes"
           /\ req[r].res.bytes = req[r].upstream.bytes
           /\ req[r].calls = <<>>

\* C6: when the upstream response has no content-type header, the request
\* does not end in a 500: the body is passed through as non-HTML.
C6_MissingContentTypePasses ==
    \A r \in Slots :
        (/\ req[r].pc = "done"
         /\ req[r].upstream.kind = "response"
         /\ req[r].upstream.status \in 200..299
         /\ ~req[r].upstream.hasCtype)
        => /\ req[r].res.status # 500
           /\ req[r].res.kind = "bytes"

\* C7: an upstream response with a non-2xx status is not a fetch failure: a
\* non-HTML one has its body forwarded, an HTML one is transformed and
\* answered 200; only a network failure gives the 500 outcome.
C7_Non2xxPassedThrough ==
    \A r \in Slots :
        (/\ req[r].pc = "done"
         /\ req[r].upstream.kind = "response"
         /\ req[r].upstream.status \notin 200..299
         /\ req[r].upstream.hasCtype)
        => IF Includes(req[r].upstream.ctype, S_text_html)
           THEN req[r].res.status = 200 /\ req[r].res.kind = "html"
           ELSE req[r].res.kind = "bytes"

\* C8: for every HTML page whose declared language equals the
\* requested target language, simple or compound, no translation call is
\* made and no text node is changed.
C8_SameLangSkips ==
    \A r \in Slots :
        (/\ HtmlFetched(req[r])
         /\ HasAttr(req[r].upstream.doc.html, "lang")
         /\ AttrVal(req[r].upstream.doc.html, "lang") = Effective(req[r]))
        => /\ req[r].calls = <<>>
           /\ req[r].pc = "done"
           /\ req[r].res.status = 200 =>
                 /\ req[r].res.kind = "html"
                 /\ TextData(req[r].res.doc) = TextData(req[r].upstream.doc)

\* C9: for every HTML page whose declared language differs from the target
\* (a page without lang counts as undetermined), every text node under the
\* body with non-blank content, direct children of body included, is
\* replaced by the engine's output for that node's original text, and the
\* nodes of the tree are the same in number and order.
C9_EveryBodyTextTranslated ==
    \A r \in Slots :
        (/\ HtmlFetched(req[r])
         /\ PageLang(req[r].upstream.doc) # Effective(req[r])
         /\ req[r].pc = "done" /\ req[r].res.status = 200)
        => /\ Shape(req[r].res.doc) = Shape(req[r].upstream.doc)
           /\ \A i \in 1..Len(req[r].upstream.doc.body) :
                 Translatable(req[r].upstream.doc.body[i])
                 => req[r].res.doc.body[i].data
                        = EngineOutput(req[r].upstream.doc.body[i].data)

\* C10: every absolute http(s) URL in a rewritten attribute, for every
\* target language the request can carry, parses back from
\* /proxy?url=...&lang=... into the original URL and the request's
\* effective target language.
C10_RewriteRoundTrip ==
    \A r \in Slots :
        (HtmlFetched(req[r]) /\ req[r].pc = "done" /\ req[r].res.status = 200)
        => \A i \in 1..Len(req[r].upstream.doc.body) :
              LET n == req[r].upstream.doc.body[i]
                  out == AttrVal(req[r].res.doc.body[i].attribs, PickAttr(n))
                  back == QueryOf(ParseQuery(out))
              IN  (Selected(n) /\ StartsWith(AttrVal(n.attribs, PickAttr(n)), S_http))
                  => /\ StartsWith(out, S_proxy_url)
                     /\ back.hasUrl
                     /\ back.url = AttrVal(n.attribs, PickAttr(n))
                     /\ TargetLang(variant, back) = Effective(req[r])

IsAbsoluteHttp(v) ==
    \/ StartsWith(v, S_http \o <<":","/","/">>)
    \/ StartsWith(v, S_http \o <<"s",":","/","/">>)

\* C11: every value of a selected element's picked attribute that is not an
\* absolute http(s) URL is resolved against the origin of the fetched page,
\* /x and x both to origin + /x, so the url parameter of the rewritten
\* attribute is that absolute URL.
C11_RelativeResolved ==
    \A r \in Slots :
        (HtmlFetched(req[r]) /\ req[r].pc = "done" /\ req[r].res.status = 200)
        => \A i \in 1..Len(req[r].upstream.doc.body) :
              LET n == req[r].upstream.doc.body[i]
                  v == AttrVal(n.attribs, PickAttr(n))
                  out == AttrVal(req[r].res.doc.body[i].attribs, PickAttr(n))
                  back == QueryOf(ParseQuery(out))
              IN  (Selected(n) /\ HasAttr(n.attribs, PickAttr(n)) /\ ~IsAbsoluteHttp(v))
                  => /\ StartsWith(out, S_proxy_url)
                     /\ back.hasUrl
                     /\ IsAbsoluteHttp(back.url)
                     /\ back.url = Origin(req[r].query.url)
                                     \o (IF StartsWith(v, <<"/">>) THEN v ELSE <<"/">> \o v)

\* C12: the rewriter does not double-wrap: the attribute of an element is
\* rewritten at most once in a pass, and a value that already starts with
\* /proxy?url= is left unchanged.
C12_NoDoubleWrap ==
    \A r \in Slots :
        (HtmlFetched(req[r]) /\ req[r].pc = "done" /\ req[r].res.status = 200)
        => \A i \in 1..Len(req[r].upstream.doc.body) :
              LET n == req[r].upstream.doc.body[i]
                  v == AttrVal(n.attribs, PickAttr(n))
                  out == AttrVal(req[r].res.doc.body[i].attribs, PickAttr(n))
              IN  (Selected(n) /\ HasAttr(n.attribs, PickAttr(n)))
                  => /\ out # v
                        => out = ProxyUrl(Resolve(v, Origin(req[r].query.url)),
                                          Effective(req[r]))
                     /\ StartsWith(v, S_proxy_url) => out = v

C13_Answer ==
    statusRes.polled
    => /\ statusRes.ready = (statusRes.engine = "Ready")
       /\ statusRes.remaining >= 0
       /\ 1000 * statusRes.remaining - 500
             <= Max(0, EstimatedLoadTime(variant) - statusRes.at)
       /\ Max(0, EstimatedLoadTime(variant) - statusRes.at)
             < 1000 * statusRes.remaining + 500
       /\ statusRes.at >= EstimatedLoadTime(variant) => statusRes.remaining = 0

C13_Polls ==
    (statusRes.polled /\ statusRes' # statusRes)
    => /\ statusRes'.at >= statusRes.at
       /\ statusRes'.remaining <= statusRes.remaining
       /\ statusRes'.at = statusRes.at => statusRes'.remaining = statusRes.remaining

\* C13: /status answers ready = true exactly when the engine is Ready at the
\* poll, and remaining = max(0, estimate - elapsed) in whole seconds: never
\* negative, never larger at a later poll, 0 from the estimate onward, and
\* the same for the same elapsed time whatever the engine state.
C13_StatusCountdown == []C13_Answer /\ [][C13_Polls]_vars

C13_Witness ==
    /\ statusRes.polled
    /\ statusRes.at > EstimatedLoadTime(variant)
    /\ statusRes.remaining = 0
    /\ statusRes.engine = "Loading"
    /\ ~statusRes.ready
    /\ EngineState = "Ready"

\* Position of the parent of node j in a pre-order list, 0 for a top node.
ParentOf(nodes, j) ==
    IF nodes[j].depth = 1 THEN 0
    ELSE CHOOSE i \in 1..(j - 1) :
            /\ nodes[i].depth = nodes[j].depth - 1
            /\ \A k \in (i + 1)..j : nodes[k].depth > nodes[i].depth

InScriptOrStyle(nodes, j) ==
    /\ nodes[j].type = "text"
    /\ ParentOf(nodes, j) # 0
    /\ nodes[ParentOf(nodes, j)].name \in {"script", "style"}

\* C14: text inside script and style elements, in the head or in the body,
\* and all text outside the body is never passed to the engine and is the
\* same in the response as in the fetched page.
C14_ScriptStyleHeadUntouched ==
    \A r \in Slots :
        HtmlFetched(req[r])
        => /\ \A k \in 1..Len(req[r].textNodes) :
                 ~InScriptOrStyle(req[r].upstream.doc.body, req[r].textNodes[k])
           /\ (req[r].pc = "done" /\ req[r].res.status = 200)
              => /\ TextData(req[r].res.doc)[1] = TextData(req[r].upstream.doc)[1]
                 /\ \A i \in 1..Len(req[r].upstream.doc.body) :
                       InScriptOrStyle(req[r].upstream.doc.body, i)
                       => req[r].res.doc.body[i].data = req[r].upstream.doc.body[i].data

\* C15: within one request the translation calls are one per collected text
\* node, in document order and strictly sequential: at most one call is in
\* flight, the call for the next node starts only when the previous one has
\* completed, and the links are rewritten and the response is sent only
\* after the last call has completed.
C15_SequentialDocumentOrder ==
    \A r \in Slots :
        HtmlFetched(req[r])
        => /\ req[r].inFlight <= 1
           /\ Len(req[r].calls) = req[r].idx
           /\ req[r].idx <= Len(req[r].textNodes)
           /\ \A k \in 1..Len(req[r].calls) :
                 req[r].calls[k] = req[r].upstream.doc.body[req[r].textNodes[k]].data
           /\ \A k \in 1..(Len(req[r].textNodes) - 1) :
                 req[r].textNodes[k] < req[r].textNodes[k + 1]
           /\ req[r].pc = "translate"
              => /\ req[r].inFlight = 1
                 /\ req[r].answers = 0
                 /\ req[r].res = NoRes
                 /\ Shape(req[r].doc) = Shape(req[r].upstream.doc)
                 /\ \A i \in 1..Len(req[r].doc.body) :
                       req[r].doc.body[i].attribs = req[r].upstream.doc.body[i].attribs
           /\ (req[r].pc = "done" /\ req[r].res.status = 200)
              => /\ req[r].inFlight = 0
                 /\ req[r].idx = Len(req[r].textNodes)

C16_Aborted ==
    \A r \in Slots :
        req[r].failure \in {"fetch", "translate"}
        => /\ req[r].pc = "done"
           /\ req[r].answers = 1
           /\ req[r].res = Res(500, "msg", <<>>, EmptyDoc, "Error proxying")
           /\ req[r].fetches = 1
           /\ req[r].inFlight = 0
           /\ Len(req[r].calls) = req[r].idx
           /\ req[r].failure = "fetch" => req[r].calls = <<>>

C16_Final ==
    \A r \in Slots : req[r].failure # "" => req'[r] = req[r]

\* C16: when the upstream fetch or the translation call of a node fails, the
\* request is aborted: it is answered 500 with the error message, no call
\* is made for a later node, nothing is fetched or called again, and no part
\* of the document, translated or not, is sent.
C16_FailureAborts == []C16_Aborted /\ [][C16_Final]_vars

C16_Witness ==
    \E r \in Slots :
        /\ req[r].failure = "translate"
        /\ req[r].idx = 2
        /\ req[r].doc # req[r].upstream.doc
        /\ req[r].res.status = 500
        /\ req[r].res.doc = EmptyDoc

\* C19: under every interleaving of the load with request handling, a
\* translation call is issued or in flight only while the engine is Ready:
\* a request past the readiness check finds the handle set at every node,
\* and no fetch is issued for a request received while the engine was not
\* Ready.
C19_CallsOnlyWhenReady ==
    \A r \in Slots :
        /\ req[r].inFlight = 1 => (EngineState = "Ready" /\ translator)
        /\ req[r].pc \in {"fetch", "translate"}
           => (EngineState = "Ready" /\ translator)
        /\ (req[r].fetches > 0 \/ req[r].calls # <<>>)
           => (req[r].engineAtRecv = "Ready" /\ EngineState = "Ready" /\ translator)
        /\ req[r].engineAtRecv # "Ready" /\ req[r].pc # "idle"
           => (req[r].pc = "done" /\ req[r].fetches = 0 /\ req[r].calls = <<>>)

C19_Witness ==
    \E r \in Slots :
        /\ req[r].inFlight = 1
        /\ req[r].idx = 2
        /\ Len(req[r].calls) = 2
        /\ EngineState = "Ready"

\* C20: for an HTML page fetched successfully whose translation was skipped
\* or succeeded, link rewriting never fails the request: whatever href, src
\* and action values the selected elements carry, an empty value included,
\* the answer is 200 with the serialized document, and an element with
\* nothing to rewrite is left unchanged.
C20_RewriteNeverFails ==
    \A r \in Slots :
        (HtmlFetched(req[r]) /\ req[r].pc = "done" /\ req[r].failure # "translate")
        => /\ req[r].res.status = 200
           /\ req[r].res.kind = "html"
           /\ Shape(req[r].res.doc) = Shape(req[r].upstream.doc)
           /\ \A i \in 1..Len(req[r].upstream.doc.body) :
                 LET n == req[r].upstream.doc.body[i]
                 IN  (n.name # "form"
                      /\ (~Selected(n) \/ ~Truthy(AttrVal(n.attribs, PickAttr(n)))))
                     => req[r].res.doc.body[i].attribs = n.attribs

C18_AtMostOnce ==
    \A r \in Slots :
        /\ req[r].answers <= 1
        /\ req[r].pc = "done" <=> req[r].answers = 1
        /\ req[r].answers = 1 => req[r].res.status \in {400, 503, 200, 500}
        /\ req[r].answers = 0 => req[r].res = NoRes

C18_Stays ==
    \A r \in Slots : req[r].answers = 1 => req'[r] = req[r]

\* C18: a /proxy request is answered at most once, with 400, 503, 200 or
\* 500, on every path through the handler; and when its fetch and each of
\* its translation calls settle, it is eventually answered exactly once.
C18_AnsweredOnce ==
    /\ []C18_AtMostOnce
    /\ [][C18_Stays]_vars
    /\ \A r \in Slots :
          (req[r].pc \in {"fetch", "translate"})
             ~> (req[r].pc = "done" /\ req[r].answers = 1)

C18_Witness ==
    \E r \in Slots :
        /\ req[r].pc = "done"
        /\ req[r].answers = 1
        /\ req[r].res.status = 200
        /\ Len(req[r].calls) = 2

\* The document after the first k collected nodes have been translated.
RECURSIVE TranslateFirst(_, _, _)
TranslateFirst(doc, nodes, k) ==
    IF k = 0 THEN doc
    ELSE LET d == TranslateFirst(doc, nodes, k - 1)
         IN  [d EXCEPT !.body[nodes[k]].data = EngineOutput(d.body[nodes[k]].data)]

\* What one request alone is answered, from its own query, its own upstream
\* response and the outcome of its own calls.
ExpectedRes(v, rec) ==
    LET q == rec.query
        up == rec.upstream
        lang == TargetLang(v, q)
        nodes == IF NeedsTranslation(v, PageLang(up.doc), lang)
                 THEN CollectTextNodes(up.doc.body) ELSE <<>>
        d == TranslateFirst(up.doc, nodes, Len(nodes))
        failed == Res(500, "msg", <<>>, EmptyDoc, "Error proxying")
    IN  CASE Admit(q, rec.engineAtRecv = "Ready") = 400
               -> Res(400, "msg", <<>>, EmptyDoc, "No URL provided")
          [] Admit(q, rec.engineAtRecv = "Ready") = 503
               -> Res(503, "msg", <<>>, EmptyDoc, "Translator model not loaded yet")
          [] OTHER ->
               IF AxiosRejects(up) \/ ClassifyThrows(up) THEN failed
               ELSE IF ~IsHtml(up) THEN Res(200, "bytes", PassThrough(up), EmptyDoc, "")
               ELSE IF rec.failure = "translate" \/ RewriteFails(d) THEN failed
               ELSE Res(200, "html", <<>>, RewriteDoc(d, q.url, lang), "")

C17_OwnInputsOnly ==
    \A r \in DOMAIN req :
        /\ req[r].pc = "done" => req[r].res = ExpectedRes(variant, req[r])
        /\ req[r].pc = "translate"
           => /\ req[r].textNodes = CollectTextNodes(req[r].upstream.doc.body)
              /\ req[r].doc = TranslateFirst(req[r].upstream.doc, req[r].textNodes,
                                             req[r].idx - 1)

C17_OneAtATime ==
    /\ \A r, s \in DOMAIN req : (req'[r] # req[r] /\ req'[s] # req[s]) => r = s
    /\ req' # req => (translator' = translator /\ loadPc' = loadPc)
    /\ \A r \in DOMAIN req : req[r].pc = "done" => req'[r] = req[r]

\* C17: with two requests in flight, their fetches and translation calls
\* settling in any order, each response is determined by that request's own
\* method, url, lang and upstream response and the engine outputs for its
\* own nodes; no translation or rewritten link of one request shows up in
\* the other's document; a handler step changes one request's state only
\* and leaves the engine handle as it is.
C17_NoInterference == []C17_OwnInputsOnly /\ [][C17_OneAtATime]_vars

C17_Witness ==
    /\ req[1].pc = "translate" /\ req[1].idx = 2
    /\ req[2].pc = "translate" /\ req[2].idx = 2
    /\ req[1].upstream.doc # req[2].upstream.doc
    /\ Effective(req[1]) # Effective(req[2])

====
